---- MODULE Spec2Model ----
(***************************************************************************)
(* ImageProcessing (lib/image_preprocessing.py): the image normaliser of   *)
(* the math_to_latex application, as a state machine.                      *)
(*                                                                         *)
(* Rasters are numpy arrays: objects on a heap, named by address, so that  *)
(* two names of one array (the constructor keeps the caller's array, the   *)
(* accessor hands out the stored one) are visible as aliases.  A raster's  *)
(* pixels are carried symbolically: its shape, what the picture shows      *)
(* (the contours cv2.findContours will report on its binarisation) and the *)
(* list of operations that produced it.                                    *)
(***************************************************************************)
EXTENDS Integers, Sequences, FiniteSets, TLC

(***************************************************************************)
(* IEEE-754 binary64 arithmetic, as far as line 85-86 needs it:            *)
(*     scale = self.target_h / float(h0);  new_w = int(w0 * scale)         *)
(* A double is [m |-> 53 bits, most significant first, e |-> exponent of   *)
(* the first bit].  Both operations round to nearest, ties to even.        *)
(***************************************************************************)
MantissaBits == 53

RECURSIVE Pow2(_)
Pow2(n) == IF n = 0 THEN 1 ELSE 2 * Pow2(n - 1)

\* the exponent e with 2^e <= a/b < 2^(e+1), for a, b >= 1
RECURSIVE ExpUp(_, _, _)
ExpUp(a, b, e) == IF 2 * b * Pow2(e) <= a THEN ExpUp(a, b, e + 1) ELSE e
RECURSIVE ExpDown(_, _, _)
ExpDown(a, b, k) == IF a * Pow2(k) >= b THEN k ELSE ExpDown(a, b, k + 1)
QuotientExp(a, b) == IF a >= b THEN ExpUp(a, b, 0) ELSE 0 - ExpDown(a, b, 1)

\* n bits of r/d, for 0 <= r < 2d, by long division
RECURSIVE DivBits(_, _, _)
DivBits(r, d, n) ==
    IF n = 0 THEN <<>>
    ELSE IF r >= d THEN <<1>> \o DivBits(2 * (r - d), d, n - 1)
    ELSE <<0>> \o DivBits(2 * r, d, n - 1)

\* what is left of r (doubled) after n bits of r/d
RECURSIVE DivRest(_, _, _)
DivRest(r, d, n) ==
    IF n = 0 THEN r
    ELSE IF r >= d THEN DivRest(2 * (r - d), d, n - 1)
    ELSE DivRest(2 * r, d, n - 1)

\* bits + 1 (the carry runs from the last bit); all ones give <<>>
RECURSIVE IncBits(_, _)
IncBits(bits, i) ==
    IF i = 0 THEN <<>>
    ELSE IF bits[i] = 0
         THEN [j \in 1..Len(bits) |-> IF j < i THEN bits[j] ELSE IF j = i THEN 1 ELSE 0]
         ELSE IncBits(bits, i - 1)

\* a mantissa rounded up by one unit in the last place
RoundUp(f) ==
    LET inc == IncBits(f.m, Len(f.m))
    IN  IF inc = <<>>
        THEN [m |-> [j \in 1..Len(f.m) |-> IF j = 1 THEN 1 ELSE 0], e |-> f.e + 1]
        ELSE [m |-> inc, e |-> f.e]

\* a / b in binary64, for integers a, b >= 1            (line 85)
FloatDiv(a, b) ==
    LET e    == QuotientExp(a, b)
        num  == IF e < 0 THEN a * Pow2(0 - e) ELSE a
        den  == IF e > 0 THEN b * Pow2(e) ELSE b
        bits == DivBits(num, den, MantissaBits)
        rest == DivRest(num, den, MantissaBits)
        f    == [m |-> bits, e |-> e]
    IN  IF rest > den \/ (rest = den /\ bits[MantissaBits] = 1)
        THEN RoundUp(f) ELSE f

Reverse(s) == [j \in 1..Len(s) |-> s[Len(s) + 1 - j]]

\* the bits of n, least significant first
RECURSIVE ToBitsLow(_)
ToBitsLow(n) == IF n = 0 THEN <<>> ELSE <<n % 2>> \o ToBitsLow(n \div 2)

\* the exact product of a bit string and an integer w >= 1, least significant
\* bit first: schoolbook multiplication from the last bit, with a carry
RECURSIVE MulBitsLow(_, _, _, _)
MulBitsLow(bits, w, i, carry) ==
    IF i = 0 THEN ToBitsLow(carry)
    ELSE <<(bits[i] * w + carry) % 2>>
             \o MulBitsLow(bits, w, i - 1, (bits[i] * w + carry) \div 2)

MulBits(bits, w) == Reverse(MulBitsLow(bits, w, Len(bits), 0))

\* w * f in binary64, for an integer w >= 1             (line 86, w0 * scale)
FloatMulInt(w, f) ==
    LET p      == MulBits(f.m, w)
        extra  == Len(p) - MantissaBits
        kept   == [m |-> SubSeq(p, 1, MantissaBits), e |-> f.e + extra]
        half   == extra >= 1 /\ p[MantissaBits + 1] = 1
        sticky == \E j \in (MantissaBits + 2)..Len(p) : p[j] = 1
    IN  IF half /\ (sticky \/ p[MantissaBits] = 1) THEN RoundUp(kept) ELSE kept

RECURSIVE BitsToInt(_, _)
BitsToInt(bits, n) == IF n = 0 THEN 0 ELSE 2 * BitsToInt(bits, n - 1) + bits[n]

\* int(f): truncation of a non-negative double         (line 86, int(...))
FloatToInt(f) ==
    IF f.e < 0 THEN 0
    ELSE IF f.e + 1 <= Len(f.m) THEN BitsToInt(f.m, f.e + 1)
    ELSE BitsToInt(f.m, Len(f.m)) * Pow2(f.e + 1 - Len(f.m))

\* new_w = int(w0 * (target_h / float(h0)))
NewWidth(w0, h0, target_h) == FloatToInt(FloatMulInt(w0, FloatDiv(target_h, h0)))

(***************************************************************************)
(* Bounds of the model.                                                    *)
(***************************************************************************)
\* the shape of the input picture of the object life cycle: tall enough for
\* a contour whose height exceeds target_h
ImgW == 2
ImgH == 65
\* contours cv2.findContours reports on one picture
MaxContours == 2
\* references to the stored image the caller keeps
MaxHeld == 2
\* shapes of the raster entering rotation and height normalisation
MaxW0 == 49
MaxH0 == 65

(***************************************************************************)
(* ImageProcessing.__init__: the configuration and the empty result.       *)
(***************************************************************************)
gaussian_kernal == 5
gaussian_sigma  == 1
threshold_color == 255
block_size      == 15
constant        == 2
target_h        == 64
\* self.processed_image = None
None == -1

Config ==
    [gaussian_kernal |-> gaussian_kernal, gaussian_sigma |-> gaussian_sigma,
     threshold_color |-> threshold_color, block_size |-> block_size,
     constant |-> constant, target_h |-> target_h]

(***************************************************************************)
(* Rasters.  ops lists the operations that made the pixels; scene lists    *)
(* the contours the picture shows; roi and angle record the crop window    *)
(* and the rotation applied on the way.                                    *)
(***************************************************************************)
Angles == {0, 90}

\* a contour as cv2 measures it: boundingRect (x, y, w, h), contourArea and
\* the angle of minAreaRect; a one-pixel-wide stroke encloses no area
Contour(x, y, w, h, a) ==
    [x |-> x, y |-> y, w |-> w, h |-> h, area |-> (w - 1) * (h - 1), angle |-> a]

\* the contours drawn in a picture of the given shape: a dot, a stroke along
\* the bottom, a stroke up the right side, the whole frame; the upright ones
\* measure 90 degrees
ContoursIn(rows, cols) ==
    {Contour(cols - w, rows - h, w, h, IF h > w THEN 90 ELSE 0) :
        w \in {1, cols}, h \in {1, rows}}

RECURSIVE SeqsUpTo(_, _)
SeqsUpTo(S, n) ==
    IF n = 0 THEN {<<>>}
    ELSE SeqsUpTo(S, n - 1) \cup {Append(q, e) : q \in SeqsUpTo(S, n - 1), e \in S}

ScenesIn(rows, cols) == SeqsUpTo(ContoursIn(rows, cols), MaxContours)

NoRoi == <<>>

Picture(h, w, ch, scene) ==
    [h |-> h, w |-> w, ch |-> ch, ops |-> <<"image">>, roi |-> NoRoi,
     angle |-> 0, scene |-> scene]

\* an address of the heap that holds no array
Free == [h |-> 0, w |-> 0, ch |-> 0, ops |-> <<>>, roi |-> NoRoi,
         angle |-> 0, scene |-> <<>>]

\* np.zeros((rows, cols), dtype=np.uint8)
Zeros(rows, cols) ==
    [h |-> rows, w |-> cols, ch |-> 1, ops |-> <<"zeros">>, roi |-> NoRoi,
     angle |-> 0, scene |-> <<>>]

Min(a, b) == IF a <= b THEN a ELSE b

(***************************************************************************)
(* The cv2 calls of run_preprocessing, each by its contract: when it       *)
(* raises cv2.error, and the shape and provenance of the new array it      *)
(* returns.                                                                *)
(***************************************************************************)
\* cv2.cvtColor(src, cv2.COLOR_BGR2GRAY) wants a non-empty 3- or 4-channel src
CvtColorRaises(src) == src.h = 0 \/ src.w = 0 \/ src.ch \notin {3, 4}
CvtColor(src) == [src EXCEPT !.ch = 1, !.ops = Append(@, "cvtColor")]

\* cv2.GaussianBlur(src, (k, k), sigma) wants k odd and positive
GaussianBlurRaises(src, k) == k <= 0 \/ k % 2 # 1
GaussianBlur(src, k, sigma) == [src EXCEPT !.ops = Append(@, "GaussianBlur")]

\* cv2.adaptiveThreshold(..., blockSize, C) wants blockSize odd and above 1
AdaptiveThresholdRaises(src, block) == block <= 1 \/ block % 2 # 1
AdaptiveThreshold(src, maxval, block, c) ==
    [src EXCEPT !.ops = Append(@, "adaptiveThreshold")]

\* cv2.findContours(binary, RETR_EXTERNAL, CHAIN_APPROX_SIMPLE)
FindContours(binary) == binary.scene

\* cv2.boundingRect(contour), cv2.minAreaRect(contour)[-1], cv2.contourArea
BoundingRect(c) == <<c.x, c.y, c.w, c.h>>
MinAreaRectAngle(c) == c.angle
ContourArea(c) == c.area

\* max(contours, key=cv2.contourArea): the scan keeps the first of the largest
RECURSIVE MaxIndexFrom(_, _, _)
MaxIndexFrom(contours, i, best) ==
    IF i > Len(contours) THEN best
    ELSE IF ContourArea(contours[i]) > ContourArea(contours[best])
         THEN MaxIndexFrom(contours, i + 1, i)
         ELSE MaxIndexFrom(contours, i + 1, best)

\* max(...) as a scan that lets a later contour of equal area win
RECURSIVE MaxIndexLastFrom(_, _, _)
MaxIndexLastFrom(contours, i, best) ==
    IF i > Len(contours) THEN best
    ELSE IF ContourArea(contours[i]) >= ContourArea(contours[best])
         THEN MaxIndexLastFrom(contours, i + 1, i)
         ELSE MaxIndexLastFrom(contours, i + 1, best)

LargestIndex_LastWins(contours) == MaxIndexLastFrom(contours, 2, 1)

LargestIndex(contours) == MaxIndexFrom(contours, 2, 1)

\* binary[y:y+h, x:x+w]: a numpy slice, clipped to the array
Crop(binary, rect, c) ==
    [binary EXCEPT
        !.h = Min(rect[2] + rect[4], binary.h) - Min(rect[2], binary.h),
        !.w = Min(rect[1] + rect[3], binary.w) - Min(rect[1], binary.w),
        !.roi = rect, !.scene = <<c>>, !.ops = Append(@, "crop")]

\* cv2.warpAffine(src, M, (cols, rows), INTER_CUBIC, BORDER_REPLICATE), M the
\* rotation by angle about center
WarpAffine(src, center, angle, cols, rows) ==
    [src EXCEPT !.h = rows, !.w = cols, !.angle = angle,
                !.ops = Append(@, "warpAffine")]

\* cv2.resize(src, (cols, rows), INTER_AREA) wants a non-empty target size
ResizeRaises(src, cols, rows) == cols <= 0 \/ rows <= 0
Resize(src, cols, rows) ==
    [src EXCEPT !.h = rows, !.w = cols, !.ops = Append(@, "resize")]

(***************************************************************************)
(* run_preprocessing, stage by stage.  A result is                         *)
(*   [raised, out, trace]: whether a stage raised, the array line 93       *)
(*   stores, and the calls made, in order, each with the array or contour  *)
(*   it was made on and its argument (the index of the contour, the width  *)
(*   asked of the resize).                                                 *)
(***************************************************************************)
Call(op, on, arg) == [op |-> op, on |-> on, arg |-> arg]

Raised(trace) == [raised |-> TRUE, out |-> Free, trace |-> trace]
Done(out, trace) == [raised |-> FALSE, out |-> out, trace |-> trace]

\* lines 66-76: rotate the cropped patch about its centre, same canvas
RotateCrop(cropped, angle) ==
    LET h_crop == cropped.h
        w_crop == cropped.w
        center == <<w_crop \div 2, h_crop \div 2>>
    IN  WarpAffine(cropped, center, angle, w_crop, h_crop)

\* lines 57-78: crop to the largest contour and rotate the patch by the
\* angle of that contour, or carry binary on; the array called adjusted
CropAndRotate(binary, contours, trace) ==
    IF contours # <<>>
    THEN LET k       == LargestIndex(contours)
             largest == contours[k]
             rect    == BoundingRect(largest)
             cropped == Crop(binary, rect, largest)
             angle   == MinAreaRectAngle(largest)
         IN  [adjusted |-> RotateCrop(cropped, angle),
              trace |-> trace \o <<Call("max", "contours", k),
                                   Call("boundingRect", "largest_contour", k),
                                   Call("crop", "binary", k),
                                   Call("minAreaRect", "largest_contour", k),
                                   Call("getRotationMatrix2D", "cropped", k),
                                   Call("warpAffine", "cropped", k)>>]
    ELSE [adjusted |-> binary, trace |-> trace]

\* lines 80-91 with a blank raster that keeps the width it was given
HeightNormalize_KeepsWidth(adjusted, trace, c) ==
    LET h0 == adjusted.h
        w0 == adjusted.w
    IN  IF h0 = 0 \/ w0 = 0
        THEN Done(Zeros(c.target_h, w0), Append(trace, Call("zeros", "-", 0)))
        ELSE LET new_w  == NewWidth(w0, h0, c.target_h)
                 called == Append(trace, Call("resize", "adjusted", new_w))
             IN  IF ResizeRaises(adjusted, new_w, c.target_h)
                 THEN Raised(called)
                 ELSE Done(Resize(adjusted, new_w, c.target_h), called)

\* lines 80-91: resize to the fixed height, or the blank square
HeightNormalize(adjusted, trace, c) ==
    LET h0 == adjusted.h
        w0 == adjusted.w
    IN  IF h0 = 0 \/ w0 = 0
        THEN Done(Zeros(c.target_h, c.target_h), Append(trace, Call("zeros", "-", 0)))
        ELSE LET new_w  == NewWidth(w0, h0, c.target_h)
                 called == Append(trace, Call("resize", "adjusted", new_w))
             IN  IF ResizeRaises(adjusted, new_w, c.target_h)
                 THEN Raised(called)
                 ELSE Done(Resize(adjusted, new_w, c.target_h), called)

\* lines 30-48: grayscale, blur, adaptive threshold
Binarize(input, c) ==
    LET t1 == <<Call("cvtColor", "input_image", 0)>>
        t2 == Append(t1, Call("GaussianBlur", "gray", 0))
        t3 == Append(t2, Call("adaptiveThreshold", "blurred", 0))
        gray    == CvtColor(input)
        blurred == GaussianBlur(gray, c.gaussian_kernal, c.gaussian_sigma)
    IN  IF CvtColorRaises(input) THEN Raised(t1)
        ELSE IF GaussianBlurRaises(gray, c.gaussian_kernal) THEN Raised(t2)
        ELSE IF AdaptiveThresholdRaises(blurred, c.block_size) THEN Raised(t3)
        ELSE Done(AdaptiveThreshold(blurred, c.threshold_color, c.block_size,
                                    c.constant), t3)

\* lines 30-91: the array line 93 stores, unless a stage raises
Preprocess(input, c) ==
    LET b == Binarize(input, c)
    IN  IF b.raised THEN b
        ELSE LET binary   == b.out
                 contours == FindContours(binary)
                 found    == Append(b.trace, Call("findContours", "binary", 0))
                 a        == CropAndRotate(binary, contours, found)
             IN  HeightNormalize(a.adjusted, a.trace, c)

(***************************************************************************)
(* State.                                                                  *)
(*   heap             the arrays, by address                               *)
(*   input_image      self.input_image: the address the constructor was    *)
(*                    given (the caller's own array, not a copy)           *)
(*   cfg              the six configuration fields                         *)
(*   processed_image  self.processed_image: None or an address             *)
(*   held             the caller's references to the stored image, as      *)
(*                    get_processed_image returned them, oldest first      *)
(*   last             the last call: its name, how it ended, what it       *)
(*                    returned                                             *)
(*   hist             what the claims need of the past                     *)
(*   stage            run_preprocessing from line 57 on, taken one stage   *)
(*                    at a time on a binary raster of any shape            *)
(***************************************************************************)
VARIABLES heap, input_image, cfg, processed_image, held, last, hist, stage

vars == <<heap, input_image, cfg, processed_image, held, last, hist, stage>>

InputAddr == 0
Addrs == 0..2

\* last: op, outcome  the call and how it ended
\*       ref          what it returned (None: nothing)
\*       before       processed_image as the call found it
\*       trace        the cv2 calls it made
Outcome(op, outcome, ref, before, trace) ==
    [op |-> op, outcome |-> outcome, ref |-> ref, before |-> before, trace |-> trace]

\* hist: ok_runs     some run_preprocessing has completed
\*       get_raised  some get_processed_image has raised
\*       computed    the array the last completed run stored, as stored
\*       once        the array the first completed run since the input was
\*                   last written stored (Free: none yet)
\*       runs        completed runs since the input was last written (0, 1, many)
NoHist ==
    [ok_runs |-> FALSE, get_raised |-> FALSE, computed |-> Free,
     once |-> Free, runs |-> 0]

Idle == [pc |-> "idle", binary |-> Free, contours |-> <<>>, adjusted |-> Free,
         result |-> Raised(<<>>)]

\* __init__ (lines 6-18) on a caller's array
Construct(picture) ==
    /\ heap = [a \in Addrs |-> IF a = InputAddr THEN picture ELSE Free]
    /\ input_image = InputAddr
    /\ cfg = Config
    /\ processed_image = None
    /\ held = <<>>
    /\ last = Outcome("__init__", "ok", None, None, <<>>)
    /\ hist = NoHist

\* the arrays a caller constructs the object on: colour pictures one pixel
\* wide and ImgW wide, with every scene, and a single-channel one
Pictures ==
    UNION {{Picture(ImgH, cols, 3, scene) : scene \in ScenesIn(ImgH, cols)} :
              cols \in {1, ImgW}}
        \cup {Picture(ImgH, ImgW, 1, <<>>)}

Init ==
    /\ \E picture \in Pictures : Construct(picture)
    /\ stage = Idle

\* the address of the array a completed run allocates: not the one the
\* stored image has
FreshAddr == IF processed_image = 1 THEN 2 ELSE 1

\* line 93 as a cache: a stored image is never replaced
Store_KeepsFirst(r) ==
    /\ IF r.raised \/ processed_image # None
       THEN /\ last' = Outcome("run", IF r.raised THEN "cv2.error" ELSE "ok", None,
                               processed_image, r.trace)
            /\ hist' = IF r.raised THEN hist
                       ELSE [hist EXCEPT !.once = IF @ = Free THEN r.out ELSE @,
                                         !.runs = IF @ = 0 THEN 1 ELSE 2]
            /\ UNCHANGED <<heap, processed_image, held>>
       ELSE /\ heap' = [heap EXCEPT ![FreshAddr] = r.out]
            /\ processed_image' = FreshAddr
            /\ held' = <<>>
            /\ last' = Outcome("run", "ok", None, processed_image, r.trace)
            /\ hist' = [hist EXCEPT !.ok_runs = TRUE,
                                    !.computed = r.out,
                                    !.once = IF @ = Free THEN r.out ELSE @,
                                    !.runs = IF @ = 0 THEN 1 ELSE 2]
    /\ UNCHANGED <<input_image, cfg>>

\* run_preprocessing binarising self.input_image in place (dst = src)
Store_InPlace(r) ==
    /\ IF r.raised
       THEN /\ last' = Outcome("run", "cv2.error", None, processed_image, r.trace)
            /\ UNCHANGED <<heap, processed_image, held, hist>>
       ELSE /\ heap' = [a \in Addrs |->
                          IF a = FreshAddr THEN r.out
                          ELSE IF a = input_image THEN CvtColor(heap[a])
                          ELSE IF a = processed_image THEN Free ELSE heap[a]]
            /\ processed_image' = FreshAddr
            /\ held' = <<>>
            /\ last' = Outcome("run", "ok", None, processed_image, r.trace)
            /\ hist' = [hist EXCEPT !.ok_runs = TRUE,
                                    !.computed = r.out,
                                    !.once = IF @ = Free THEN r.out ELSE @,
                                    !.runs = IF @ = 0 THEN 1 ELSE 2]
    /\ UNCHANGED <<input_image, cfg>>

\* line 93, or the exception leaving run_preprocessing
Store(r) ==
    /\ IF r.raised
       THEN /\ last' = Outcome("run", "cv2.error", None, processed_image, r.trace)
            /\ UNCHANGED <<heap, processed_image, held, hist>>
       ELSE /\ heap' = [a \in Addrs |->
                          IF a = FreshAddr THEN r.out
                          ELSE IF a = processed_image THEN Free ELSE heap[a]]
            /\ processed_image' = FreshAddr
            /\ held' = <<>>
            /\ last' = Outcome("run", "ok", None, processed_image, r.trace)
            /\ hist' = [hist EXCEPT !.ok_runs = TRUE,
                                    !.computed = r.out,
                                    !.once = IF @ = Free THEN r.out ELSE @,
                                    !.runs = IF @ = 0 THEN 1 ELSE 2]
    /\ UNCHANGED <<input_image, cfg>>

\* run_preprocessing (lines 20-93)
RunPreprocessing ==
    /\ \E r \in {Preprocess(heap[input_image], cfg)} : Store(r)
    /\ UNCHANGED stage

\* get_processed_image without the check of lines 100-101
GetProcessedImage_NoCheck ==
    /\ last' = Outcome("get", "ok", processed_image, processed_image, <<>>)
    /\ held' = IF processed_image = None THEN held
               ELSE IF Len(held) < MaxHeld
               THEN Append(held, processed_image)
               ELSE Append(Tail(held), processed_image)
    /\ UNCHANGED <<heap, input_image, cfg, processed_image, hist, stage>>

\* get_processed_image (lines 95-102)
GetProcessedImage ==
    /\ IF processed_image = None
       THEN /\ last' = Outcome("get", "ValueError", None, processed_image, <<>>)
            /\ hist' = [hist EXCEPT !.get_raised = TRUE]
            /\ UNCHANGED held
       ELSE /\ last' = Outcome("get", "ok", processed_image, processed_image, <<>>)
            /\ held' = IF Len(held) < MaxHeld
                       THEN Append(held, processed_image)
                       ELSE Append(Tail(held), processed_image)
            /\ UNCHANGED hist
    /\ UNCHANGED <<heap, input_image, cfg, processed_image, stage>>

\* line 7 keeps the caller's array itself: the caller draws one more stroke
\* on it, or wipes the last one off
CallerWritesInput ==
    /\ \E scene \in
           {Append(heap[input_image].scene, c) :
                c \in {d \in ContoursIn(heap[input_image].h, heap[input_image].w) :
                          Len(heap[input_image].scene) < MaxContours}}
           \cup {SubSeq(heap[input_image].scene, 1, Len(heap[input_image].scene) - 1)} :
           /\ scene # heap[input_image].scene
           /\ heap' = [heap EXCEPT ![input_image].scene = scene]
    /\ last' = Outcome("write_input", "ok", None, processed_image, <<>>)
    /\ hist' = [hist EXCEPT !.once = Free, !.runs = 0]
    /\ UNCHANGED <<input_image, cfg, processed_image, held, stage>>

\* line 102 returns the stored array itself: the caller writes pixels of an
\* array it was handed
CallerWritesReturned ==
    /\ \E i \in 1..Len(held) :
           /\ heap[held[i]].ops[Len(heap[held[i]].ops)] # "caller_write"
           /\ heap' = [heap EXCEPT ![held[i]].ops = Append(@, "caller_write")]
    /\ last' = Outcome("write_returned", "ok", None, processed_image, <<>>)
    /\ UNCHANGED <<input_image, cfg, processed_image, held, hist, stage>>

Next ==
    \/ RunPreprocessing
    \/ GetProcessedImage
    \/ CallerWritesInput
    \/ CallerWritesReturned

Spec == Init /\ [][Next]_vars

(***************************************************************************)
(* Lines 50-93 one stage at a time, on the binarisation of a picture of    *)
(* any shape.  The empty pictures are among them: cv2.cvtColor refuses     *)
(* them before line 82 can see one, and line 82 is written for them.       *)
(***************************************************************************)
BinaryOf(picture) ==
    AdaptiveThreshold(GaussianBlur(CvtColor(picture), gaussian_kernal, gaussian_sigma),
                      threshold_color, block_size, constant)

\* pictures of one contour of every size, and blank pictures of every shape
StagePictures ==
    {Picture(MaxH0, MaxW0, 3, <<Contour(0, 0, w, h, a)>>) :
        w \in 1..MaxW0, h \in 1..MaxH0, a \in Angles}
    \cup {Picture(h, w, 3, <<>>) : w \in 0..MaxW0, h \in 0..MaxH0}

\* lines 50-55
StageInit ==
    \E picture \in StagePictures :
        /\ Construct(picture)
        /\ stage = [pc |-> "detected", binary |-> BinaryOf(picture),
                    contours |-> FindContours(BinaryOf(picture)),
                    adjusted |-> Free, result |-> Raised(<<>>)]

\* lines 57-76
StageCropRotate ==
    /\ stage.pc = "detected"
    /\ stage.contours # <<>>
    /\ stage' = [stage EXCEPT
                   !.pc = "adjusted",
                   !.adjusted = CropAndRotate(stage.binary, stage.contours, <<>>).adjusted]
    /\ UNCHANGED <<heap, input_image, cfg, processed_image, held, last, hist>>

\* lines 77-78
StageCarry ==
    /\ stage.pc = "detected"
    /\ stage.contours = <<>>
    /\ stage' = [stage EXCEPT
                   !.pc = "adjusted",
                   !.adjusted = CropAndRotate(stage.binary, stage.contours, <<>>).adjusted]
    /\ UNCHANGED <<heap, input_image, cfg, processed_image, held, last, hist>>

\* lines 80-93
StageResize ==
    /\ stage.pc = "adjusted"
    /\ \E r \in {HeightNormalize(stage.adjusted, <<>>, cfg)} :
           /\ stage' = [stage EXCEPT !.pc = "done", !.result = r]
           /\ Store(r)

StageNext ==
    \/ StageCropRotate
    \/ StageCarry
    \/ StageResize

SpecStages == StageInit /\ [][StageNext]_vars

(***************************************************************************)
(* Properties.                                                             *)
(***************************************************************************)
Positions(t, op) == {i \in 1..Len(t) : t[i].op = op}
Pos(t, op) == CHOOSE i \in Positions(t, op) : TRUE
Once(t, op) == Cardinality(Positions(t, op)) = 1

\* the contour of largest area, the first found among equals
FirstOfLargest(scene) ==
    CHOOSE i \in 1..Len(scene) :
        /\ \A j \in 1..Len(scene) : scene[j].area <= scene[i].area
        /\ \A j \in 1..(i - 1) : scene[j].area < scene[i].area

\* C1: get_processed_image raises, and returns nothing, as long as no
\* run_preprocessing has completed on the instance; once one has, it returns
\* the stored image.
C1_GetRaisesUntilRun ==
    /\ (processed_image = None) <=> ~hist.ok_runs
    /\ last.op = "get" =>
          IF hist.ok_runs
          THEN last.outcome = "ok" /\ last.ref # None /\ last.ref = processed_image
          ELSE last.outcome = "ValueError" /\ last.ref = None

C1_Witness == last.op = "get" /\ last.outcome = "ok" /\ hist.get_raised

\* C2: after a run_preprocessing in which a stage raises, the instance is
\* Unprocessed, whatever it was before the call.
C2_FailedRunLeavesUnprocessed ==
    (last.op = "run" /\ last.outcome = "cv2.error") => processed_image = None

\* C3: a stored result is target_h rows high; a post-rotation raster with a
\* zero dimension gives the all-zero target_h x target_h square.
C3_HeightAndBlankSquare ==
    /\ processed_image # None => heap[processed_image].h = target_h
    /\ (stage.pc = "done" /\ (stage.adjusted.h = 0 \/ stage.adjusted.w = 0)) =>
          /\ last.outcome = "ok"
          /\ processed_image # None
          /\ heap[processed_image] = Zeros(target_h, target_h)

C3_Witness ==
    /\ stage.pc = "done"
    /\ stage.adjusted.w = 0
    /\ stage.adjusted.h > 0
    /\ last.op = "run"
    /\ processed_image # None
    /\ heap[processed_image] = Zeros(target_h, target_h)

\* the raster rotation works on: the crop to the one contour, or all of binary
StageCropW == IF stage.contours # <<>> THEN stage.contours[1].w ELSE stage.binary.w
StageCropH == IF stage.contours # <<>> THEN stage.contours[1].h ELSE stage.binary.h

\* C4: for a crop of w x h (w, h >= 1) the rotated raster is w x h and the
\* processed image is floor(w * target_h / h) wide.
C4_WidthIsFloorOfAspect ==
    (stage.pc = "done" /\ StageCropW >= 1 /\ StageCropH >= 1) =>
        /\ stage.adjusted.w = StageCropW
        /\ stage.adjusted.h = StageCropH
        /\ processed_image # None =>
              heap[processed_image].w = (StageCropW * target_h) \div StageCropH

\* C5: on an input nobody has written since, every further run_preprocessing
\* completes and leaves the image the first one left, in a new array.
C5_RerunLeavesSameImage ==
    (last.op = "run" /\ hist.runs >= 1) =>
        /\ last.outcome = "ok"
        /\ heap[processed_image] = hist.once
        /\ processed_image # last.before

C5_Witness ==
    /\ last.op = "run"
    /\ last.outcome = "ok"
    /\ hist.runs = 2
    /\ last.before # None

\* C6: run_preprocessing and get_processed_image write neither the input
\* array nor a configuration field, and the array stored is not the input.
C6_InputAndConfigUntouched ==
    [][last'.op \in {"run", "get"} =>
          /\ input_image' = input_image
          /\ heap'[input_image] = heap[input_image]
          /\ cfg' = cfg
          /\ cfg' = Config
          /\ processed_image' # input_image]_vars

C6_Witness ==
    /\ last.op = "get"
    /\ last.outcome = "ok"
    /\ hist.runs = 2
    /\ heap[input_image].scene # <<>>
    /\ cfg = Config

\* C7: what get_processed_image returns is a copy: no returned array is the
\* stored one or another returned one, and the stored image stays as
\* run_preprocessing computed it whatever the caller writes.
C7_ReturnedRasterIsACopy ==
    /\ \A i \in 1..Len(held) : held[i] # processed_image
    /\ \A i, j \in 1..Len(held) : i # j => held[i] # held[j]
    /\ processed_image # None => heap[processed_image] = hist.computed

\* C8: on a picture with no contour run_preprocessing does not raise: no
\* crop, no rotation, and a stored image target_h rows high.
C8_NoContourNeverRaises ==
    (last.op = "run" /\ heap[input_image].ch = 3 /\ heap[input_image].scene = <<>>) =>
        /\ last.outcome = "ok"
        /\ Positions(last.trace, "crop") = {}
        /\ Positions(last.trace, "warpAffine") = {}
        /\ processed_image # None
        /\ heap[processed_image].h = target_h

\* what C9 says of one run apart from the order of the steps: one detection,
\* on the uncropped binary raster; rectangle and angle of the same contour,
\* the first of the largest; the rotation on the cropped raster
C9_OneContourForBoth(t, scene) ==
    /\ Once(t, "findContours")
    /\ t[Pos(t, "findContours")].on = "binary"
    /\ scene # <<>> =>
          /\ \A op \in {"boundingRect", "crop", "minAreaRect", "warpAffine", "resize"} :
                Once(t, op)
          /\ t[Pos(t, "boundingRect")] =
                Call("boundingRect", "largest_contour", FirstOfLargest(scene))
          /\ t[Pos(t, "minAreaRect")] =
                Call("minAreaRect", "largest_contour", FirstOfLargest(scene))
          /\ t[Pos(t, "crop")].on = "binary"
          /\ t[Pos(t, "warpAffine")].on = "cropped"
          /\ last.outcome = "ok" =>
                /\ heap[processed_image].roi = BoundingRect(scene[FirstOfLargest(scene)])
                /\ heap[processed_image].angle = scene[FirstOfLargest(scene)].angle

\* C9, as claimed: detect, derive rectangle and angle, crop, rotate, resize.
C9_RectangleAndAngleBeforeCrop ==
    (last.op = "run" /\ heap[input_image].ch = 3) =>
        /\ C9_OneContourForBoth(last.trace, heap[input_image].scene)
        /\ heap[input_image].scene # <<>> =>
              /\ Pos(last.trace, "findContours") < Pos(last.trace, "boundingRect")
              /\ Pos(last.trace, "findContours") < Pos(last.trace, "minAreaRect")
              /\ Pos(last.trace, "boundingRect") < Pos(last.trace, "crop")
              /\ Pos(last.trace, "minAreaRect") < Pos(last.trace, "crop")
              /\ Pos(last.trace, "crop") < Pos(last.trace, "warpAffine")
              /\ Pos(last.trace, "warpAffine") < Pos(last.trace, "resize")

\* C9, amended: detect, derive the rectangle, crop, derive the angle (of the
\* same contour, in the uncropped frame), rotate the cropped raster, resize.
C9_DetectRectCropAngleRotateResize ==
    (last.op = "run" /\ heap[input_image].ch = 3) =>
        /\ C9_OneContourForBoth(last.trace, heap[input_image].scene)
        /\ heap[input_image].scene # <<>> =>
              /\ Pos(last.trace, "findContours") < Pos(last.trace, "boundingRect")
              /\ Pos(last.trace, "boundingRect") < Pos(last.trace, "crop")
              /\ Pos(last.trace, "crop") < Pos(last.trace, "minAreaRect")
              /\ Pos(last.trace, "minAreaRect") < Pos(last.trace, "warpAffine")
              /\ Pos(last.trace, "warpAffine") < Pos(last.trace, "resize")

C9_Witness ==
    /\ last.op = "run"
    /\ last.outcome = "ok"
    /\ Len(heap[input_image].scene) = 2
    /\ heap[input_image].scene[1].area = heap[input_image].scene[2].area
    /\ BoundingRect(heap[input_image].scene[1]) # BoundingRect(heap[input_image].scene[2])
    /\ heap[input_image].scene[1].angle # heap[input_image].scene[2].angle

\* C10: for a post-rotation raster of w x h (w, h >= 1) the width asked of
\* the resize is at least 1, the run completes, and the processed image has
\* width > 0 and height > 0.
C10_ResizeWidthAtLeastOne ==
    (stage.pc = "done" /\ stage.adjusted.w >= 1 /\ stage.adjusted.h >= 1) =>
        /\ last.trace[Pos(last.trace, "resize")].arg >= 1
        /\ last.outcome = "ok"
        /\ processed_image # None
        /\ heap[processed_image].w > 0
        /\ heap[processed_image].h > 0
====
